---- MODULE Spec2Model ----
(***************************************************************************)
(* Model of data_collection/src/app.py: the asyncio supervisor main(), one *)
(* run() session per BLE device, the mqtt_watcher() pipeline task and the  *)
(* final teardown handleException(), plus the notification decoders.       *)
(*                                                                         *)
(* Scheduling is asyncio's: a task runs from one await that suspends to    *)
(* the next without interruption; tasks that became runnable are run in    *)
(* FIFO order (the loop's ready queue); I/O completions, timers, dropped   *)
(* links and notifications are external events.  CancelledError is a       *)
(* BaseException (Python >= 3.8): "except Exception" does not catch it.     *)
(***************************************************************************)
EXTENDS Integers, Sequences, FiniteSets, TLC

\* ---------------------------------------------------------------- bounds

\* Number of configured devices (len(BLE_ADDR_LIST)).
NumDevices == 2
\* Number of cohorts whose tasks are followed; a run ends when main() has
\* spawned the next one.
MaxCohorts == 1
\* Iterations of the pacing loop in live-scan mode ("delay = 10" in the source).
PaceTicksRT == 2
\* delay of the pacing loop in export mode.
EXPORT_DELAY == 1
\* count stops growing at this value ("if count < 5").
CALIBRATION_SAMPLES == 5
\* Longest sequence of register() calls followed.
MaxRegistered == 3
\* The indicator codes run() writes: red + buzzer, green.
RED_BUZZER == 5
GREEN == 2

Devices == 1..NumDevices
Cohorts == 1..(MaxCohorts + 1)

MODE_RT_SCAN == "rt_scan"
MODE_EXPORT_DATA == "export"

VARIABLES
    mode,            \* module global "mode"
    ready,           \* the event loop's FIFO of runnable tasks
    mainSt,          \* main(): position, cohorts spawned, result of gather
    sess,            \* run(): one record per cohort and device
    dev,             \* the BleakClient and QuatSensor of each session
    flag,            \* readiness Events of each cohort ("flags")
    mqtt_flag,       \* written Events of each cohort ("mqtt_flags")
    waiters,         \* sessions suspended in flag.wait(), in arrival order
    watcher,         \* mqtt_watcher() of each cohort
    fresh,           \* per-device JSON file written since the last publish
    ble_queue,       \* module global asyncio.Queue of BleakClients
    led_and_buzzer,  \* module global: 0 = None, else the cohort that made it
    teardown,        \* handleException(): position and client in hand
    probe,           \* decoder checks: which decoder input is drawn
    data,            \* decoder checks: the notification payload (bytes)
    decoded          \* decoder checks: what the callbacks stored

vars == <<mode, ready, mainSt, sess, dev, flag, mqtt_flag, waiters, watcher,
          fresh, ble_queue, led_and_buzzer, teardown, probe, data, decoded>>

\* ------------------------------------------------------------ task names

Task(k, c, d) == [k |-> k, c |-> c, d |-> d]
MainT == Task("main", 0, 0)
RunT(c, d) == Task("run", c, d)
WatchT(c) == Task("mqtt_watcher", c, 0)
TearT == Task("handleException", 0, 0)

\* The loop's state as one record, so that a task step is a function on it.
\* warn_flag is what warn_flag.is_set() answers during the step: the Event
\* (buzzer_Flag, handed to the MQTT client with user_data_set) is set and
\* cleared by MQTT messages at any time.
Cur ==
    [ready |-> ready, mainSt |-> mainSt, sess |-> sess, dev |-> dev,
     flag |-> flag, mqtt_flag |-> mqtt_flag, waiters |-> waiters,
     watcher |-> watcher, fresh |-> fresh, ble_queue |-> ble_queue,
     led_and_buzzer |-> led_and_buzzer, teardown |-> teardown,
     warn_flag |-> FALSE]

Commit(n) ==
    /\ ready' = n.ready
    /\ mainSt' = n.mainSt
    /\ sess' = n.sess
    /\ dev' = n.dev
    /\ flag' = n.flag
    /\ mqtt_flag' = n.mqtt_flag
    /\ waiters' = n.waiters
    /\ watcher' = n.watcher
    /\ fresh' = n.fresh
    /\ ble_queue' = n.ble_queue
    /\ led_and_buzzer' = n.led_and_buzzer
    /\ teardown' = n.teardown
    /\ UNCHANGED <<mode, probe, data, decoded>>

\* loop.call_soon: the task is run after everything already runnable.
Enqueue(s, t) == [s EXCEPT !.ready = Append(@, t)]

Terminal == {"done", "failed", "cancelled"}

\* A task not yet created; the client and sensor objects not yet made.
NoSession ==
    [pc |-> "unborn", res |-> "none", count |-> 0, i |-> 0, k |-> 0,
     exc |-> "none", must_cancel |-> FALSE, code |-> 0, warned |-> FALSE]

NoDevice ==
    [conn |-> "none", disc |-> 0, bound |-> FALSE, sub |-> FALSE, reading |-> 0]

NoWatcher == [pc |-> "unborn", k |-> 0, res |-> "none", must_cancel |-> FALSE]

\* ------------------------------------------------------------- asyncio.Event

RECURSIVE WakeAll(_, _, _)
WakeAll(s, c, ws) ==
    IF ws = <<>> THEN s
    ELSE WakeAll(Enqueue([s EXCEPT !.sess[c][Head(ws)].res = "ok"],
                         RunT(c, Head(ws))),
                 c, Tail(ws))

\* flag.set(): every waiter's future is resolved, in the order they wait.
FlagSet(s, c, k) ==
    IF s.flag[c][k] THEN s
    ELSE WakeAll([s EXCEPT !.flag[c][k] = TRUE, !.waiters[c][k] = <<>>],
                 c, s.waiters[c][k])

\* Variant: the flag is set but the watcher waiting for it is not woken.
MqttFlagSetSilent(s, c, k) == [s EXCEPT !.mqtt_flag[c][k] = TRUE]

\* mqtt_flag.set(): its only waiter is the cohort's mqtt_watcher.
MqttFlagSet(s, c, k) ==
    IF s.mqtt_flag[c][k] THEN s
    ELSE LET s1 == [s EXCEPT !.mqtt_flag[c][k] = TRUE] IN
         IF /\ s.watcher[c].pc = "wait"
            /\ s.watcher[c].k = k
            /\ s.watcher[c].res = "none"
         THEN Enqueue([s1 EXCEPT !.watcher[c].res = "ok"], WatchT(c))
         ELSE s1

\* ------------------------------------------------------------- gather

\* gather's done-callback for a child that ended with an exception: the
\* first one resolves the outer future and wakes main(); later ones are
\* only marked retrieved.
\* Variant: gather(return_exceptions=True) keeps waiting for the others.
GatherExcCollected(s, c) == s

GatherExc(s, c) ==
    IF /\ s.mainSt.pc = "gather"
       /\ s.mainSt.res = "none"
       /\ s.mainSt.cohort = c
    THEN Enqueue([s EXCEPT !.mainSt.res = "exc"], MainT)
    ELSE s

\* gather's done-callback for a child that returned: the outer future gets
\* its result once every child, mqtt_watcher included, has returned.
GatherReturn(s, c) ==
    IF /\ s.mainSt.pc = "gather"
       /\ s.mainSt.res = "none"
       /\ s.mainSt.cohort = c
       /\ \A d \in Devices : s.sess[c][d].pc = "done"
       /\ s.watcher[c].pc = "done"
    THEN Enqueue([s EXCEPT !.mainSt.res = "ok"], MainT)
    ELSE s

\* ------------------------------------------------------------- run()

\* delay of the pacing loop.
Delay == IF mode = MODE_RT_SCAN THEN PaceTicksRT ELSE EXPORT_DELAY

\* An exception (or break) leaves "async with ble_client": __aexit__ calls
\* client.disconnect() and awaits it.  The body's locals (count, i) are not
\* read again.
LeaveWith(s, c, d, why) ==
    [s EXCEPT !.sess[c][d] = [NoSession EXCEPT !.pc = "closing", !.exc = why],
              !.dev[c][d].disc = @ + 1]

\* The task is over; with an exception, gather hears of it.  The client
\* stays in ble_queue.
Finish(s, c, d, why) ==
    LET s1 == [s EXCEPT !.sess[c][d] =
                            [NoSession EXCEPT
                                !.pc = IF why = "done" THEN "done"
                                       ELSE IF why = "cancelled" THEN "cancelled"
                                       ELSE "failed",
                                !.exc = why]]
    IN IF why = "cancelled" THEN s1
       ELSE IF why = "done" THEN GatherReturn(s1, c)
       ELSE GatherExc(s1, c)

\* led_and_buzzer.notify(client, code): the first write_gatt_char.
\* led_and_buzzer is still None when no session has connected yet.
\* Variant: the code follows warn_flag alone.
IndicatorCodeWarnOnly(s, c, d) == IF s.warn_flag THEN RED_BUZZER ELSE GREEN

\* "if warn_flag.is_set() or (count > 2 and count < 5)": 0x05, else 0x02.
\* The session holds the code until notify() hands it to its second write.
IndicatorCode(s, c, d) ==
    IF s.warn_flag \/ (s.sess[c][d].count > 2 /\ s.sess[c][d].count < CALIBRATION_SAMPLES)
    THEN RED_BUZZER
    ELSE GREEN

StartNotify(s, c, d, i) ==
    IF s.led_and_buzzer = 0
    THEN LeaveWith(s, c, d, "no_led")
    ELSE [s EXCEPT !.sess[c][d].pc = "led_ctrl",
                   !.sess[c][d].res = "none",
                   !.sess[c][d].i = i,
                   !.sess[c][d].warned = s.warn_flag,
                   !.sess[c][d].code = IndicatorCode(s, c, d)]

\* The top of "while True": the mode branch, then the pacing loop.
LoopTop(s, c, d, over) ==
    IF mode = MODE_RT_SCAN
    THEN StartNotify([s EXCEPT !.sess[c][d].count =
                         IF @ < CALIBRATION_SAMPLES THEN @ + 1 ELSE @],
                     c, d, 0)
    ELSE IF over
         THEN LeaveWith(s, c, d, "done")
         ELSE StartNotify(s, c, d, 0)

\* Variant: the record is written whether or not a reading is stored.
ReleaseUnchecked(s, c, d, over) ==
    LoopTop(MqttFlagSet([s EXCEPT !.fresh[c][d] = TRUE], c, d), c, d, over)

\* After the barrier: read movement_sensor.readings, write the JSON file,
\* set mqtt_flag, loop.
Release(s, c, d, over) ==
    IF ~s.dev[c][d].bound \/ s.dev[c][d].reading = 0
    THEN LeaveWith(s, c, d, "no_reading")
    ELSE LoopTop(MqttFlagSet([s EXCEPT !.fresh[c][d] = TRUE], c, d),
                 c, d, over)

\* "for f in flags: await f.wait()", from flag k on.
\* Variant: a barrier that waits for the session's own flag only, which the
\* liveness check has just set.
BarrierOwnFlagOnly(s, c, d, k, over) == Release(s, c, d, over)

RECURSIVE BarrierWait(_, _, _, _, _)
BarrierWait(s, c, d, k, over) ==
    IF k > NumDevices THEN Release(s, c, d, over)
    ELSE IF s.flag[c][k] THEN BarrierWait(s, c, d, k + 1, over)
    ELSE [s EXCEPT !.sess[c][d].pc = "barrier",
                   !.sess[c][d].k = k,
                   !.sess[c][d].res = "none",
                   !.waiters[c][k] = Append(@, d)]

\* The try block after the pacing loop: liveness check, own flag, barrier.
\* Variant: the flag is set without asking client.is_connected.
LivenessCheckSkipped(s, c, d, over) == BarrierWait(FlagSet(s, c, d), c, d, 1, over)

LivenessCheck(s, c, d, over) ==
    IF s.dev[c][d].conn # "up"
    THEN LeaveWith([s EXCEPT !.flag[c][d] = FALSE], c, d, "lost_check")
    ELSE BarrierWait(FlagSet(s, c, d), c, d, 1, over)

\* CancelledError thrown into the coroutine at its current await.
Cancelled(s, c, d) ==
    LET pc == s.sess[c][d].pc IN
    IF pc \in {"start", "connect", "closing"}
    THEN Finish(s, c, d, "cancelled")
    ELSE LeaveWith(s, c, d, "cancelled")

\* One step of run(): from the await that was resumed to the next one that
\* suspends.
RunStep(s, c, d, over) ==
    LET me == s.sess[c][d]
        ok == me.res = "ok"
    IN
    IF me.must_cancel THEN Cancelled(s, c, d)
    ELSE CASE me.pc = "start" ->
                [s EXCEPT !.dev[c][d].conn = "new",
                          !.ble_queue = Append(@, <<c, d>>),
                          !.sess[c][d].pc = "connect",
                          !.sess[c][d].res = "none"]
           [] me.pc = "connect" ->
                IF ~ok THEN Finish(s, c, d, "connect_error")
                ELSE IF s.dev[c][d].conn = "up"
                THEN [s EXCEPT !.led_and_buzzer = c,
                               !.dev[c][d].bound = TRUE,
                               !.sess[c][d].pc = "cfg_write",
                               !.sess[c][d].res = "none"]
                ELSE [s EXCEPT !.sess[c][d].pc = "settle",
                               !.sess[c][d].res = "none"]
           [] me.pc = "cfg_write" ->
                [s EXCEPT !.sess[c][d].pc = IF ok THEN "cfg_notify" ELSE "settle",
                          !.sess[c][d].res = "none"]
           [] me.pc = "cfg_notify" ->
                [s EXCEPT !.sess[c][d].pc = "settle",
                          !.sess[c][d].res = "none"]
           [] me.pc = "settle" ->
                LoopTop([s EXCEPT !.sess[c][d].count = 0], c, d, over)
           [] me.pc = "led_ctrl" ->
                IF ok THEN [s EXCEPT !.sess[c][d].pc = "led_data",
                                     !.sess[c][d].res = "none",
                                     !.sess[c][d].warned = FALSE,
                                     !.sess[c][d].code = 0]
                ELSE LeaveWith(s, c, d, "lost_write")
           [] me.pc = "led_data" ->
                IF ok THEN [s EXCEPT !.sess[c][d].pc = "pace",
                                     !.sess[c][d].res = "none"]
                ELSE LeaveWith(s, c, d, "lost_write")
           [] me.pc = "pace" ->
                IF me.i + 1 < Delay
                THEN StartNotify(s, c, d, me.i + 1)
                ELSE LivenessCheck(s, c, d, over)
           [] me.pc = "barrier" ->
                BarrierWait(s, c, d, me.k + 1, over)
           [] me.pc = "closing" ->
                Finish(s, c, d, me.exc)

\* ------------------------------------------------------------- mqtt_watcher()

\* mqtt_send_data(): get_data_func() merges the JSON files, the row is
\* appended to the CSV.  The files just read are no longer fresh.
MqttSendData(s, c) ==
    [s EXCEPT !.fresh[c] = [d \in Devices |-> FALSE]]

\* "for f in mqtt_flags: await f.wait()" from flag k on, then clear them
\* all and send; a failing sink ends the task with its exception.
\* Variant: the watcher waits for the first device's mqtt_flag only.
WatchFirstFlagOnly(s, c, k, sinkOk) ==
    IF s.mqtt_flag[c][1]
    THEN LET s1 == MqttSendData(
                     [s EXCEPT !.mqtt_flag[c] = [d \in Devices |-> FALSE]], c)
         IN IF sinkOk
            THEN [s1 EXCEPT !.watcher[c].pc = "wait",
                            !.watcher[c].k = 1,
                            !.watcher[c].res = "none"]
            ELSE GatherExc([s1 EXCEPT !.watcher[c].pc = "failed",
                                      !.watcher[c].res = "none"], c)
    ELSE [s EXCEPT !.watcher[c].pc = "wait",
                   !.watcher[c].k = 1,
                   !.watcher[c].res = "none"]

RECURSIVE WatchWait(_, _, _, _)
WatchWait(s, c, k, sinkOk) ==
    IF k > NumDevices
    THEN LET s1 == MqttSendData(
                     [s EXCEPT !.mqtt_flag[c] = [d \in Devices |-> FALSE]], c)
         IN IF sinkOk
            THEN WatchWait(s1, c, 1, sinkOk)
            ELSE GatherExc([s1 EXCEPT !.watcher[c].pc = "failed",
                                      !.watcher[c].res = "none"], c)
    ELSE IF s.mqtt_flag[c][k] THEN WatchWait(s, c, k + 1, sinkOk)
    ELSE [s EXCEPT !.watcher[c].pc = "wait",
                   !.watcher[c].k = k,
                   !.watcher[c].res = "none"]

WatchStep(s, c, sinkOk) ==
    IF s.watcher[c].must_cancel
    THEN [s EXCEPT !.watcher[c].pc = "cancelled",
                   !.watcher[c].res = "none",
                   !.watcher[c].must_cancel = FALSE]
    ELSE IF s.watcher[c].pc = "start"
         THEN WatchWait(s, c, 1, sinkOk)
         ELSE WatchWait(s, c, s.watcher[c].k + 1, sinkOk)

\* ------------------------------------------------------------- main()

\* t.cancel() on a session task: a finished task ignores it; a suspended
\* one has its awaited future cancelled and is woken; one already woken is
\* marked and gets the CancelledError when it runs.
\* Variant: the session tasks are left out of the cancel loop.
CancelRunSkipped(s, c, d) == s

CancelRun(s, c, d) ==
    LET me == s.sess[c][d] IN
    IF me.pc \in Terminal THEN s
    ELSE IF me.res # "none"
    THEN [s EXCEPT !.sess[c][d].must_cancel = TRUE]
    ELSE Enqueue(
           [s EXCEPT !.sess[c][d].must_cancel = TRUE,
                     !.sess[c][d].res = "ok",
                     !.waiters[c] =
                        IF me.pc = "barrier"
                        THEN [@ EXCEPT ![me.k] =
                                 SelectSeq(@, LAMBDA x : x # d)]
                        ELSE @],
           RunT(c, d))

\* Variant: the watcher task is left out of the cancel loop.
CancelWatcherSkipped(s, c) == s

CancelWatcher(s, c) ==
    LET w == s.watcher[c] IN
    IF w.pc \in Terminal THEN s
    ELSE IF w.res # "none"
    THEN [s EXCEPT !.watcher[c].must_cancel = TRUE]
    ELSE Enqueue([s EXCEPT !.watcher[c].must_cancel = TRUE,
                           !.watcher[c].res = "ok"],
                 WatchT(c))

\* "for t in tasks: t.cancel()": the sessions in BLE_ADDR_LIST order, then
\* the watcher.
RECURSIVE CancelAll(_, _, _)
CancelAll(s, c, d) ==
    IF d > NumDevices THEN CancelWatcher(s, c)
    ELSE CancelAll(CancelRun(s, c, d), c, d + 1)

\* asyncio.ensure_future(run(...)) for every address, then the watcher.
RECURSIVE SpawnRuns(_, _, _)
SpawnRuns(s, c, d) ==
    IF d > NumDevices
    THEN Enqueue([s EXCEPT !.watcher[c].pc = "start",
                           !.watcher[c].res = "ok"],
                 WatchT(c))
    ELSE SpawnRuns(Enqueue([s EXCEPT !.sess[c][d].pc = "start",
                                     !.sess[c][d].res = "ok"],
                           RunT(c, d)),
                   c, d + 1)

\* New Events for the cohort, its tasks, then "await asyncio.gather(*tasks)".
Spawn(s) ==
    LET c == s.mainSt.cohort + 1 IN
    SpawnRuns([s EXCEPT !.mainSt.cohort = c,
                        !.mainSt.pc = "gather",
                        !.mainSt.res = "none"],
              c, 1)

\* The except block: cancel everything; live-scan sleeps and loops, export
\* evaluates asyncio.get_event_loop.close(), which raises AttributeError out
\* of main(); __main__ then runs handleException().
HandleError(s) ==
    LET c == s.mainSt.cohort
        s1 == CancelAll(s, c, 1)
    IN
    IF mode = MODE_RT_SCAN
    THEN [s1 EXCEPT !.mainSt.pc = "backoff", !.mainSt.res = "none"]
    ELSE Enqueue([s1 EXCEPT !.mainSt.pc = "crashed",
                            !.mainSt.res = "none",
                            !.teardown.pc = "start",
                            !.teardown.res = "ok"],
                 TearT)

MainStep(s) ==
    CASE s.mainSt.pc \in {"start", "backoff"} ->
            [s EXCEPT !.mainSt.pc = "discover", !.mainSt.res = "none"]
      [] s.mainSt.pc = "discover" ->
            IF s.mainSt.res = "found" THEN Spawn(s)
            ELSE [s EXCEPT !.mainSt.res = "none"]
      [] s.mainSt.pc = "gather" ->
            IF s.mainSt.res = "exc" THEN HandleError(s)
            ELSE [s EXCEPT !.mainSt.pc = "discover", !.mainSt.res = "none"]

\* ------------------------------------------------------------- handleException()

\* "while not ble_queue.empty(): client = await ble_queue.get();
\*  await client.disconnect()"; when the queue is empty the loop is closed.
TeardownStep(s) ==
    IF s.ble_queue = <<>>
    THEN [s EXCEPT !.teardown.pc = "closed", !.teardown.res = "none"]
    ELSE LET cl == Head(s.ble_queue) IN
         [s EXCEPT !.ble_queue = Tail(@),
                   !.teardown.pc = "disconnect",
                   !.teardown.res = "none",
                   !.teardown.client = cl,
                   !.dev[cl[1]][cl[2]].disc = @ + 1]

\* ------------------------------------------------------------- initial state

\* __main__: mode from sys.argv, then loop.run_until_complete(main(...)).
InitLoop ==
    /\ ready = <<MainT>>
    /\ mainSt = [pc |-> "start", res |-> "ok", cohort |-> 0]
    /\ sess = [c \in Cohorts |-> [d \in Devices |-> NoSession]]
    /\ dev = [c \in Cohorts |-> [d \in Devices |-> NoDevice]]
    /\ flag = [c \in Cohorts |-> [d \in Devices |-> FALSE]]
    /\ mqtt_flag = [c \in Cohorts |-> [d \in Devices |-> FALSE]]
    /\ waiters = [c \in Cohorts |-> [d \in Devices |-> <<>>]]
    /\ watcher = [c \in Cohorts |-> NoWatcher]
    /\ fresh = [c \in Cohorts |-> [d \in Devices |-> FALSE]]
    /\ ble_queue = <<>>
    /\ led_and_buzzer = 0
    /\ teardown = [pc |-> "idle", res |-> "none", client |-> <<0, 0>>]

NoProbe ==
    /\ probe = "none"
    /\ data = <<>>
    /\ decoded = <<>>

Init ==
    /\ mode \in {MODE_RT_SCAN, MODE_EXPORT_DATA}
    /\ InitLoop
    /\ NoProbe

\* ------------------------------------------------------------- task steps

\* loop.close() at the end of handleException_ freezes everything; a run is
\* followed up to the spawn of cohort MaxCohorts + 1.
LoopOpen ==
    /\ teardown.pc # "closed"
    /\ mainSt.cohort <= MaxCohorts

Runs(t) ==
    /\ LoopOpen
    /\ ready # <<>>
    /\ Head(ready) = t

Popped == [Cur EXCEPT !.ready = Tail(@)]

run(c, d) ==
    /\ Runs(RunT(c, d))
    /\ \E over, warn \in BOOLEAN :
         Commit(RunStep([Popped EXCEPT !.warn_flag = warn], c, d, over))

mqtt_watcher(c) ==
    /\ Runs(WatchT(c))
    /\ \E sinkOk \in BOOLEAN : Commit(WatchStep(Popped, c, sinkOk))

main ==
    /\ Runs(MainT)
    /\ Commit(MainStep(Popped))

handleException ==
    /\ Runs(TearT)
    /\ Commit(TeardownStep(Popped))

\* ------------------------------------------------------------- external events

Suspended(c, d, pcs) ==
    /\ LoopOpen
    /\ sess[c][d].pc \in pcs
    /\ sess[c][d].res = "none"

\* BleakClient.connect() ends: connected, or an error (timeout, rejection).
ConnectDone(c, d) ==
    /\ Suspended(c, d, {"connect"})
    /\ \E ok \in BOOLEAN :
         /\ sess' = [sess EXCEPT ![c][d].res = IF ok THEN "ok" ELSE "err"]
         /\ dev' = [dev EXCEPT ![c][d].conn = IF ok THEN "up" ELSE @]
    /\ ready' = Append(ready, RunT(c, d))
    /\ UNCHANGED <<mode, mainSt, flag, mqtt_flag, waiters, watcher, fresh,
                   ble_queue, led_and_buzzer, teardown, probe, data, decoded>>

\* The control write or start_notify of start_listener ends; it fails on a
\* lost link and may fail on a live one.
ConfigDone(c, d) ==
    /\ Suspended(c, d, {"cfg_write", "cfg_notify"})
    /\ \E ok \in BOOLEAN :
         LET good == ok /\ dev[c][d].conn = "up" IN
         /\ sess' = [sess EXCEPT ![c][d].res = IF good THEN "ok" ELSE "err"]
         /\ dev' = [dev EXCEPT ![c][d].sub =
                        good /\ sess[c][d].pc = "cfg_notify"]
    /\ ready' = Append(ready, RunT(c, d))
    /\ UNCHANGED <<mode, mainSt, flag, mqtt_flag, waiters, watcher, fresh,
                   ble_queue, led_and_buzzer, teardown, probe, data, decoded>>

\* A write_gatt_char of LEDAndBuzzer.notify ends: it raises on a lost link.
WriteDone(c, d) ==
    /\ Suspended(c, d, {"led_ctrl", "led_data"})
    /\ sess' = [sess EXCEPT ![c][d].res =
                   IF dev[c][d].conn = "up" THEN "ok" ELSE "err"]
    /\ ready' = Append(ready, RunT(c, d))
    /\ UNCHANGED <<mode, mainSt, dev, flag, mqtt_flag, waiters, watcher, fresh,
                   ble_queue, led_and_buzzer, teardown, probe, data, decoded>>

\* asyncio.sleep(5) or asyncio.sleep(TIME_BETWEEN_READINGS) is over.
SleepDone(c, d) ==
    /\ Suspended(c, d, {"settle", "pace"})
    /\ sess' = [sess EXCEPT ![c][d].res = "ok"]
    /\ ready' = Append(ready, RunT(c, d))
    /\ UNCHANGED <<mode, mainSt, dev, flag, mqtt_flag, waiters, watcher, fresh,
                   ble_queue, led_and_buzzer, teardown, probe, data, decoded>>

\* The disconnect() of __aexit__ ends.
DisconnectDone(c, d) ==
    /\ Suspended(c, d, {"closing"})
    /\ sess' = [sess EXCEPT ![c][d].res = "ok"]
    /\ dev' = [dev EXCEPT ![c][d].conn = "closed"]
    /\ ready' = Append(ready, RunT(c, d))
    /\ UNCHANGED <<mode, mainSt, flag, mqtt_flag, waiters, watcher, fresh,
                   ble_queue, led_and_buzzer, teardown, probe, data, decoded>>

\* The device drops the link (on_disconnect only prints).
Drop(c, d) ==
    /\ LoopOpen
    /\ dev[c][d].conn = "up"
    /\ sess[c][d].pc \notin Terminal \cup {"closing"}
    /\ dev' = [dev EXCEPT ![c][d].conn = "lost"]
    /\ UNCHANGED <<mode, ready, mainSt, sess, flag, mqtt_flag, waiters, watcher,
                   fresh, ble_queue, led_and_buzzer, teardown, probe, data,
                   decoded>>

\* A notification arrives: QuatSensor.callback stores a reading, unless
\* struct.unpack raises on a payload of the wrong length.
Notification(c, d) ==
    /\ LoopOpen
    /\ dev[c][d].sub
    /\ dev[c][d].conn = "up"
    /\ \E wellFormed \in BOOLEAN :
         dev' = [dev EXCEPT ![c][d].reading = IF wellFormed THEN 1 ELSE @]
    /\ UNCHANGED <<mode, ready, mainSt, sess, flag, mqtt_flag, waiters, watcher,
                   fresh, ble_queue, led_and_buzzer, teardown, probe, data,
                   decoded>>

\* discover_sensors() answers: all devices seen, or not yet.
DiscoverDone ==
    /\ LoopOpen
    /\ mainSt.pc = "discover"
    /\ mainSt.res = "none"
    /\ \E found \in BOOLEAN :
         mainSt' = [mainSt EXCEPT !.res = IF found THEN "found" ELSE "notfound"]
    /\ ready' = Append(ready, MainT)
    /\ UNCHANGED <<mode, sess, dev, flag, mqtt_flag, waiters, watcher, fresh,
                   ble_queue, led_and_buzzer, teardown, probe, data, decoded>>

\* The asyncio.sleep(5) of the except block is over.
BackoffDone ==
    /\ LoopOpen
    /\ mainSt.pc = "backoff"
    /\ mainSt.res = "none"
    /\ mainSt' = [mainSt EXCEPT !.res = "ok"]
    /\ ready' = Append(ready, MainT)
    /\ UNCHANGED <<mode, sess, dev, flag, mqtt_flag, waiters, watcher, fresh,
                   ble_queue, led_and_buzzer, teardown, probe, data, decoded>>

\* The client.disconnect() of handleException ends.
TeardownDisconnectDone ==
    /\ LoopOpen
    /\ teardown.pc = "disconnect"
    /\ teardown.res = "none"
    /\ teardown' = [teardown EXCEPT !.res = "ok"]
    /\ dev' = [dev EXCEPT ![teardown.client[1]][teardown.client[2]].conn = "closed"]
    /\ ready' = Append(ready, TearT)
    /\ UNCHANGED <<mode, mainSt, sess, flag, mqtt_flag, waiters, watcher, fresh,
                   ble_queue, led_and_buzzer, probe, data, decoded>>

Next ==
    \/ \E c \in Cohorts, d \in Devices : run(c, d)
    \/ \E c \in Cohorts : mqtt_watcher(c)
    \/ main
    \/ handleException
    \/ \E c \in Cohorts, d \in Devices : ConnectDone(c, d)
    \/ \E c \in Cohorts, d \in Devices : ConfigDone(c, d)
    \/ \E c \in Cohorts, d \in Devices : WriteDone(c, d)
    \/ \E c \in Cohorts, d \in Devices : SleepDone(c, d)
    \/ \E c \in Cohorts, d \in Devices : DisconnectDone(c, d)
    \/ \E c \in Cohorts, d \in Devices : Drop(c, d)
    \/ \E c \in Cohorts, d \in Devices : Notification(c, d)
    \/ DiscoverDone
    \/ BackoffDone
    \/ TeardownDisconnectDone

Spec == Init /\ [][Next]_vars

\* Export mode alone, under the scheduling asyncio gives: a runnable task
\* is run, and every awaited connect, write, sleep, disconnect and scan
\* ends.  Link drops and notifications are up to the devices.
InitExport ==
    /\ mode = MODE_EXPORT_DATA
    /\ InitLoop
    /\ NoProbe

NextExport ==
    \/ \E c \in Cohorts, d \in Devices : run(c, d)
    \/ \E c \in Cohorts : mqtt_watcher(c)
    \/ main
    \/ handleException
    \/ \E c \in Cohorts, d \in Devices : ConnectDone(c, d)
    \/ \E c \in Cohorts, d \in Devices : ConfigDone(c, d)
    \/ \E c \in Cohorts, d \in Devices : WriteDone(c, d)
    \/ \E c \in Cohorts, d \in Devices : SleepDone(c, d)
    \/ \E c \in Cohorts, d \in Devices : DisconnectDone(c, d)
    \/ \E c \in Cohorts, d \in Devices : Drop(c, d)
    \/ \E c \in Cohorts, d \in Devices : Notification(c, d)
    \/ DiscoverDone
    \/ TeardownDisconnectDone

FairExport ==
    /\ WF_vars(\E c \in Cohorts, d \in Devices : run(c, d))
    /\ WF_vars(\E c \in Cohorts : mqtt_watcher(c))
    /\ WF_vars(main)
    /\ WF_vars(handleException)
    /\ WF_vars(\E c \in Cohorts, d \in Devices : ConnectDone(c, d))
    /\ WF_vars(\E c \in Cohorts, d \in Devices : ConfigDone(c, d))
    /\ WF_vars(\E c \in Cohorts, d \in Devices : WriteDone(c, d))
    /\ WF_vars(\E c \in Cohorts, d \in Devices : SleepDone(c, d))
    /\ WF_vars(\E c \in Cohorts, d \in Devices : DisconnectDone(c, d))
    /\ WF_vars(DiscoverDone)
    /\ WF_vars(TeardownDisconnectDone)

SpecExport == InitExport /\ [][NextExport]_vars /\ FairExport

\* Both modes, assuming of the scheduling only that the event loop keeps
\* running the task at the head of its ready queue; awaited I/O and timers
\* may take for ever.
TaskStep ==
    \/ \E c \in Cohorts, d \in Devices : run(c, d)
    \/ \E c \in Cohorts : mqtt_watcher(c)
    \/ main
    \/ handleException

FairLoop == WF_vars(TaskStep)

SpecFair == Init /\ [][Next]_vars /\ FairLoop

\* Live-scan mode with healthy devices: the scan finds them, every connect
\* and every write succeeds, no link drops, every notification is well
\* formed, the first one arriving within the five-second sleep that
\* follows start_listener, and mqtt_send_data() does not raise.  The event
\* loop runs the task at the head of its queue; every awaited connect,
\* write and sleep ends.
InitLive ==
    /\ mode = MODE_RT_SCAN
    /\ InitLoop
    /\ NoProbe

Discovered == DiscoverDone /\ mainSt'.res = "found"

Connected(c, d) == ConnectDone(c, d) /\ sess'[c][d].res = "ok"

ListenerStarted(c, d) == ConfigDone(c, d) /\ sess'[c][d].res = "ok"

Slept(c, d) ==
    /\ sess[c][d].pc = "settle" => dev[c][d].reading # 0
    /\ SleepDone(c, d)

Notified(c, d) == Notification(c, d) /\ dev'[c][d].reading # 0

Watches(c) == mqtt_watcher(c) /\ watcher'[c].pc # "failed"

NextLive ==
    \/ \E c \in Cohorts, d \in Devices : run(c, d)
    \/ \E c \in Cohorts : Watches(c)
    \/ main
    \/ Discovered
    \/ \E c \in Cohorts, d \in Devices : Connected(c, d)
    \/ \E c \in Cohorts, d \in Devices : ListenerStarted(c, d)
    \/ \E c \in Cohorts, d \in Devices : WriteDone(c, d)
    \/ \E c \in Cohorts, d \in Devices : Slept(c, d)
    \/ \E c \in Cohorts, d \in Devices : Notified(c, d)

FairLive ==
    /\ WF_vars(\E c \in Cohorts, d \in Devices : run(c, d))
    /\ WF_vars(\E c \in Cohorts : Watches(c))
    /\ WF_vars(main)
    /\ WF_vars(Discovered)
    /\ \A c \in Cohorts, d \in Devices :
          /\ WF_vars(Connected(c, d))
          /\ WF_vars(ListenerStarted(c, d))
          /\ WF_vars(WriteDone(c, d))
          /\ WF_vars(Slept(c, d))
          /\ WF_vars(Notified(c, d))

SpecLive == InitLive /\ [][NextLive]_vars /\ FairLive

\* ------------------------------------------------------------- decoders

\* Python's seq[lo:hi] for 0 <= lo <= hi.
Slice(seq, lo, hi) ==
    SubSeq(seq, lo + 1, IF hi < Len(seq) THEN hi ELSE Len(seq))

\* Python's seq[:-n].
DropLast(seq, n) == SubSeq(seq, 1, Len(seq) - n)

\* "<h": one little-endian signed 16-bit integer.
Int16LE(lo, hi) ==
    LET u == lo + 256 * hi IN IF u >= 32768 THEN u - 65536 ELSE u

\* "<f": one little-endian 32-bit float, kept as its bit pattern in two
\* 16-bit halves.
Float32LE(b0, b1, b2, b3) == [lo |-> b0 + 256 * b1, hi |-> b2 + 256 * b3]

\* What an unpack that raised struct.error yields: no values.
Raised == <<>>

\* struct.unpack("<hhhhhhhhh", data).
UnpackMotion(bytes) ==
    IF Len(bytes) # 18 THEN Raised
    ELSE [n \in 1..9 |-> Int16LE(bytes[2 * n - 1], bytes[2 * n])]

\* Variant: a short payload is padded with zero bytes instead of refused.
UnpackQuatPadded(bytes) ==
    LET padded == bytes \o [n \in 1..(18 - Len(bytes)) |-> 0] IN
    [n \in 1..4 |-> Float32LE(padded[4 * n - 3], padded[4 * n - 2],
                                padded[4 * n - 1], padded[4 * n])]

\* struct.unpack("<ffff", data[:-2]).
UnpackQuat(bytes) ==
    LET body == DropLast(bytes, 2) IN
    IF Len(bytes) < 2 \/ Len(body) # 16 THEN Raised
    ELSE [n \in 1..4 |-> Float32LE(body[4 * n - 3], body[4 * n - 2],
                                    body[4 * n - 1], body[4 * n])]

\* v * self.scale, the scale kept as the fraction the source writes.
Scaled(rawVals, num, den) ==
    [n \in 1..Len(rawVals) |-> [num |-> rawVals[n] * num, den |-> den]]

\* GyroscopeSensorMovementSensorMPU9250.cb_sensor: data[0:3] * 500.0/65536.0
GyroCb(unpacked, now) == <<now, Scaled(Slice(unpacked, 0, 3), 500, 65536)>>

\* Variant: the accelerometer slice starts one integer early.
AccelCbOverlapping(unpacked, now) ==
    <<now, Scaled(Slice(unpacked, 2, 5), 8, 32768)>>

\* AccelerometerSensorMovementSensorMPU9250.cb_sensor: data[3:6] * 8.0/32768.0
AccelCb(unpacked, now) == <<now, Scaled(Slice(unpacked, 3, 6), 8, 32768)>>

\* MagnetometerSensorMovementSensorMPU9250.cb_sensor: data[6:9] * 4912.0/32760
MagCb(unpacked, now) == <<now, Scaled(Slice(unpacked, 6, 9), 4912, 32760)>>

\* Python's x & mask and x >> n, x << n on an int of any sign (two's
\* complement without a width); mask is below 2^16.
Bit(x, j) == (x \div 2 ^ j) % 2

RECURSIVE BitAndUpTo(_, _, _)
BitAndUpTo(x, mask, j) ==
    IF j < 0 THEN 0
    ELSE Bit(x, j) * Bit(mask, j) * 2 ^ j + BitAndUpTo(x, mask, j - 1)

BitAnd(x, mask) == BitAndUpTo(x, mask, 15)
ShiftRight(x, n) == x \div 2 ^ n
ShiftLeft(x, n) == x * 2 ^ n

\* struct.unpack('<h', data)
UnpackOptical(bytes) ==
    IF Len(bytes) # 2 THEN Raised ELSE <<Int16LE(bytes[1], bytes[2])>>

\* Variant: the exponent is shifted out of raw without the 0xF000 mask.
OpticalCbUnmasked(raw) ==
    LET m == BitAnd(raw, 4095)
        e == ShiftRight(raw, 12)
    IN [m |-> m, e |-> e, lux |-> [num |-> m * 2 ^ (e % 16), den |-> 100]]

\* OpticalSensor.callback: m = raw & 0xFFF, e = (raw & 0xF000) >> 12,
\* 0.01 * (m << e) printed.
OpticalCb(raw) ==
    LET m == BitAnd(raw, 4095)
        e == ShiftRight(BitAnd(raw, 61440), 12)
    IN [m |-> m, e |-> e, lux |-> [num |-> ShiftLeft(m, e), den |-> 100]]

\* QuatSensor.callback: self.readings = [getTimeStamp(), tuple(rawVals)]
QuatCb(rawVals, now) == <<now, rawVals>>

\* zip(keys, vals) as a dict: one entry per position both sequences have.
ZipDict(keys, vals) ==
    LET n == IF Len(keys) < Len(vals) THEN Len(keys) ELSE Len(vals) IN
    [key \in {keys[j] : j \in 1..n} |->
        vals[CHOOSE j \in 1..n : keys[j] = key]]

\* d[key] = val on a dict.
DictPut(dict, key, val) ==
    [x \in DOMAIN dict \cup {key} |-> IF x = key THEN val ELSE dict[x]]

\* run(): the dictionary dumped to <postfix>.json.
Datalist(readings, postfix) ==
    LET timestamp == readings[1]
        l == <<"q0_", "q1_", "q2_", "q3_">>
        sensor_keys == [j \in 1..Len(l) |-> l[j] \o postfix]
        sensor_val == Slice(readings, 1, Len(readings))
    IN DictPut(ZipDict(sensor_keys, sensor_val), "Timestamp", timestamp)

\* What the device sends: the integers or float patterns, little-endian.
PackInt16(v) ==
    LET u == IF v < 0 THEN v + 65536 ELSE v IN <<u % 256, u \div 256>>

PackFloat32(w) ==
    <<w.lo % 256, w.lo \div 256, w.hi % 256, w.hi \div 256>>

RECURSIVE Flatten(_)
Flatten(ss) == IF ss = <<>> THEN <<>> ELSE Head(ss) \o Flatten(Tail(ss))

Roles == {"neck", "back_mid", "back_low"}

\* The inputs the decoders are tried on.
SampleInt16 == {-32768, 1}
\* 1.0, -1.0 and the smallest subnormal
SampleFloat32 ==
    {[lo |-> 0, hi |-> 16256], [lo |-> 0, hi |-> 49024], [lo |-> 1, hi |-> 0]}
SampleSeqNo == {<<7, 0>>}
SampleTime == {1, 2}

\* 0x1064, zero, the extremes, and patterns with the top bit set
SampleOptical == {4196, 0, 1, 32767, -1, -32768, -32767, -4096}

OpticalProbes ==
    {[kind |-> "optical", vals |-> <<v>>, cut |-> cut, now |-> 1,
      role |-> "neck"] : v \in SampleOptical, cut \in {0, 1}}

MotionProbes ==
    {[kind |-> "motion", vals |-> v, cut |-> cut, now |-> 1, role |-> "neck"] :
        v \in [1..9 -> SampleInt16], cut \in {0, 1}}

QuatProbes ==
    {[kind |-> "quat", vals |-> v, cut |-> cut, now |-> t, role |-> r] :
        v \in [1..4 -> SampleFloat32], cut \in {0, 1},
        t \in SampleTime, r \in Roles}

\* The payload of a probe; cut bytes are missing from its end.
Payload(p) ==
    LET whole == IF p.kind = "motion"
                 THEN Flatten([n \in 1..9 |-> PackInt16(p.vals[n])])
                 ELSE IF p.kind = "optical" THEN PackInt16(p.vals[1])
                 ELSE Flatten([n \in 1..4 |-> PackFloat32(p.vals[n])])
                      \o CHOOSE q \in SampleSeqNo : TRUE
    IN DropLast(whole, p.cut)

Undecoded ==
    [stage |-> "none", gyro |-> <<>>, accel |-> <<>>, mag |-> <<>>,
     readings |-> <<>>, datalist |-> <<>>, optical |-> <<>>]

InitDecode ==
    /\ mode = MODE_RT_SCAN
    /\ InitLoop
    /\ probe \in MotionProbes \cup QuatProbes \cup OpticalProbes
    /\ data = Payload(probe)
    /\ decoded = Undecoded

\* MovementSensorMPU9250.callback with the three sub-sensors registered.
MotionCallback ==
    /\ probe.kind = "motion"
    /\ decoded.stage = "none"
    /\ LET unpacked_data == UnpackMotion(data) IN
       decoded' =
         IF unpacked_data = Raised
         THEN [decoded EXCEPT !.stage = "raised"]
         ELSE [decoded EXCEPT !.stage = "stored",
                              !.gyro = GyroCb(unpacked_data, probe.now),
                              !.accel = AccelCb(unpacked_data, probe.now),
                              !.mag = MagCb(unpacked_data, probe.now)]
    /\ UNCHANGED <<mode, ready, mainSt, sess, dev, flag, mqtt_flag, waiters,
                   watcher, fresh, ble_queue, led_and_buzzer, teardown, probe,
                   data>>

\* QuatSensor.callback.
QuatCallback ==
    /\ probe.kind = "quat"
    /\ decoded.stage = "none"
    /\ LET rawVals == UnpackQuat(data) IN
       decoded' =
         IF rawVals = Raised
         THEN [decoded EXCEPT !.stage = "raised"]
         ELSE [decoded EXCEPT !.stage = "stored",
                              !.readings = QuatCb(rawVals, probe.now)]
    /\ UNCHANGED <<mode, ready, mainSt, sess, dev, flag, mqtt_flag, waiters,
                   watcher, fresh, ble_queue, led_and_buzzer, teardown, probe,
                   data>>

\* OpticalSensor.callback.
OpticalCallback ==
    /\ probe.kind = "optical"
    /\ decoded.stage = "none"
    /\ LET raw == UnpackOptical(data) IN
       decoded' =
         IF raw = Raised
         THEN [decoded EXCEPT !.stage = "raised"]
         ELSE [decoded EXCEPT !.stage = "stored",
                              !.optical = OpticalCb(raw[1])]
    /\ UNCHANGED <<mode, ready, mainSt, sess, dev, flag, mqtt_flag, waiters,
                   watcher, fresh, ble_queue, led_and_buzzer, teardown, probe,
                   data>>

\* The notifications that may follow one: same sensor and role, all
\* values alike, whole or cut short.
FollowUps(p) ==
    IF p.kind = "motion"
    THEN {[p EXCEPT !.vals = [n \in 1..9 |-> v], !.cut = cut] :
             v \in SampleInt16, cut \in {0, 1}}
    ELSE {[p EXCEPT !.vals = [n \in 1..4 |-> v], !.cut = cut, !.now = t] :
             v \in SampleFloat32, cut \in {0, 1}, t \in SampleTime}

\* The device sends another notification to the same sensor object.
NextNotification ==
    /\ probe.kind \in {"motion", "quat"}
    /\ decoded.stage \in {"raised", "stored", "written"}
    /\ \E p \in FollowUps(probe) :
         /\ probe' = p
         /\ data' = Payload(p)
    /\ decoded' = [decoded EXCEPT !.stage = "none"]
    /\ UNCHANGED <<mode, ready, mainSt, sess, dev, flag, mqtt_flag, waiters,
                   watcher, fresh, ble_queue, led_and_buzzer, teardown>>

\* run() after the barrier: the JSON object of the stored reading.
WriteJson ==
    /\ probe.kind = "quat"
    /\ decoded.stage = "stored"
    /\ decoded' = [decoded EXCEPT
                      !.stage = "written",
                      !.datalist = Datalist(decoded.readings, probe.role)]
    /\ UNCHANGED <<mode, ready, mainSt, sess, dev, flag, mqtt_flag, waiters,
                   watcher, fresh, ble_queue, led_and_buzzer, teardown, probe,
                   data>>

\* ------------------------------------------------- MovementSensorMPU9250

\* Python's x | y on ints below 2^16.
RECURSIVE BitOrUpTo(_, _, _)
BitOrUpTo(x, y, j) ==
    IF j < 0 THEN 0
    ELSE (IF Bit(x, j) + Bit(y, j) > 0 THEN 2 ^ j ELSE 0) + BitOrUpTo(x, y, j - 1)

BitOr(x, y) == BitOrUpTo(x, y, 15)

GYRO_XYZ == 7
ACCEL_XYZ == ShiftLeft(7, 3)
MAG_XYZ == ShiftLeft(1, 6)
ACCEL_RANGE_4G == ShiftLeft(1, 8)

SubSensors == {"gyro", "accel", "mag"}

\* enable_bits() of a sub-sensor object: the bits its __init__ sets.
EnableBits(sub) ==
    CASE sub = "gyro" -> GYRO_XYZ
      [] sub = "accel" -> BitOr(ACCEL_XYZ, ACCEL_RANGE_4G)
      [] sub = "mag" -> MAG_XYZ

\* struct.pack("<H", v)
PackUInt16(v) == <<v % 256, v \div 256>>

\* The readings a sub-sensor's cb_sensor stores.
SubCb(sub, unpacked, now) ==
    CASE sub = "gyro" -> GyroCb(unpacked, now)
      [] sub = "accel" -> AccelCb(unpacked, now)
      [] sub = "mag" -> MagCb(unpacked, now)

\* MovementSensorMPU9250.__init__, before any register().
NewMovementSensor ==
    [stage |-> "made", ctrlBits |-> 0, sub_callbacks |-> <<>>,
     written |-> <<>>, calls |-> <<>>,
     gyro |-> <<>>, accel |-> <<>>, mag |-> <<>>]

\* The payloads the registered sensor is notified with.
RegisterProbes ==
    {[kind |-> "motion", vals |-> [n \in 1..9 |-> IF n = k THEN -32768 ELSE n],
      cut |-> cut, now |-> 1, role |-> "neck"] : k \in {1, 5, 9}, cut \in {0, 1}}

InitRegister ==
    /\ mode = MODE_RT_SCAN
    /\ InitLoop
    /\ probe \in RegisterProbes
    /\ data = Payload(probe)
    /\ decoded = NewMovementSensor

\* Variant: register() stores the new bits instead of or-ing them in.
RegisteredOverwriting(obj, sub) ==
    [obj EXCEPT !.ctrlBits = EnableBits(sub),
                !.sub_callbacks = Append(@, sub)]

\* MovementSensorMPU9250.register(cls_obj)
Registered(obj, sub) ==
    [obj EXCEPT !.ctrlBits = BitOr(@, EnableBits(sub)),
                !.sub_callbacks = Append(@, sub)]

register ==
    /\ decoded.stage = "made"
    /\ Len(decoded.sub_callbacks) < MaxRegistered
    /\ \E sub \in SubSensors : decoded' = Registered(decoded, sub)
    /\ UNCHANGED <<mode, ready, mainSt, sess, dev, flag, mqtt_flag, waiters,
                   watcher, fresh, ble_queue, led_and_buzzer, teardown, probe,
                   data>>

\* MovementSensorMPU9250.start_listener: the control write, start_notify.
start_listener ==
    /\ decoded.stage = "made"
    /\ decoded' = [decoded EXCEPT
                      !.stage = "listening",
                      !.written = Append(@, PackUInt16(decoded.ctrlBits))]
    /\ UNCHANGED <<mode, ready, mainSt, sess, dev, flag, mqtt_flag, waiters,
                   watcher, fresh, ble_queue, led_and_buzzer, teardown, probe,
                   data>>

\* "for cb in self.sub_callbacks: cb(unpacked_data)" from callback j on.
RECURSIVE Dispatched(_, _, _)
Dispatched(obj, unpacked, j) ==
    IF j > Len(obj.sub_callbacks) THEN obj
    ELSE LET sub == obj.sub_callbacks[j]
             r == SubCb(sub, unpacked, probe.now)
         IN Dispatched([obj EXCEPT !.calls = Append(@, <<sub, unpacked>>),
                                   !.gyro = IF sub = "gyro" THEN r ELSE @,
                                   !.accel = IF sub = "accel" THEN r ELSE @,
                                   !.mag = IF sub = "mag" THEN r ELSE @],
                       unpacked, j + 1)

\* MovementSensorMPU9250.callback on the registered sub-sensors.
callback ==
    /\ decoded.stage = "listening"
    /\ LET unpacked_data == UnpackMotion(data) IN
       decoded' =
         IF unpacked_data = Raised
         THEN [decoded EXCEPT !.stage = "raised"]
         ELSE [Dispatched(decoded, unpacked_data, 1) EXCEPT !.stage = "notified"]
    /\ UNCHANGED <<mode, ready, mainSt, sess, dev, flag, mqtt_flag, waiters,
                   watcher, fresh, ble_queue, led_and_buzzer, teardown, probe,
                   data>>

NextRegister ==
    \/ register
    \/ start_listener
    \/ callback

SpecRegister == InitRegister /\ [][NextRegister]_vars

NextDecode ==
    \/ MotionCallback
    \/ QuatCallback
    \/ OpticalCallback
    \/ NextNotification
    \/ WriteJson

SpecDecode == InitDecode /\ [][NextDecode]_vars


\* ------------------------------------------------------------- claims

\* A step in which session (c, d) gets past "for f in flags: await f.wait()":
\* it was resumed in the barrier, or at the end of the pacing loop, and is
\* neither suspended in the barrier again nor thrown out before it.
PassesBarrier(c, d) ==
    /\ ready # <<>>
    /\ Head(ready) = RunT(c, d)
    /\ ~sess[c][d].must_cancel
    /\ \/ sess[c][d].pc = "barrier"
       \/ sess[c][d].pc = "pace" /\ sess[c][d].i + 1 >= Delay
    /\ sess'[c][d].pc \notin {"barrier", "pace"}
    /\ ~(sess'[c][d].pc = "closing" /\ sess'[c][d].exc = "lost_check")

\* C1: the readiness barrier releases a session only in a state where the
\* readiness flag of every configured device is set; with any flag clear the
\* session stays suspended and writes no record.
C1_BarrierNeedsAllFlags ==
    [][\A c \in Cohorts, d \in Devices :
          PassesBarrier(c, d) => \A k \in Devices : flag'[c][k]]_vars

\* C1 witness: one session has been released and has written its record
\* with every flag set, while its sibling, woken from the barrier, is about
\* to follow.
C1_Witness ==
    \E c \in Cohorts : \E d, e \in Devices :
        /\ d # e
        /\ fresh[c][d]
        /\ \A k \in Devices : flag[c][k]
        /\ sess[c][e].pc = "barrier"
        /\ sess[c][e].res = "ok"

\* C2 as claimed: a readiness flag is set only if its owning session holds
\* a decoded reading.
C2_FlagOnlyAfterDecode ==
    \A c \in Cohorts, d \in Devices :
        flag[c][d] => dev[c][d].reading # 0

\* C2 amended: a readiness flag becomes set only in a step of its owning
\* session at the liveness check that ends a pacing loop, with the client
\* connected; a session that is still connecting, configuring or settling
\* never has its flag set.  A decoded reading is not required.
C2_FlagOnlyAfterLivenessCheck ==
    /\ [](\A c \in Cohorts, d \in Devices :
            flag[c][d] =>
              sess[c][d].pc \notin {"unborn", "start", "connect", "cfg_write",
                                    "cfg_notify", "settle"})
    /\ [][\A c \in Cohorts, d \in Devices :
            (~flag[c][d] /\ flag'[c][d]) =>
               /\ ready # <<>>
               /\ Head(ready) = RunT(c, d)
               /\ sess[c][d].pc = "pace"
               /\ sess[c][d].i + 1 >= Delay
               /\ dev[c][d].conn = "up"]_vars

\* C2 witness: a session waits in the barrier with its flag set and nothing
\* decoded.
C2_Witness ==
    \E c \in Cohorts, d \in Devices :
        /\ flag[c][d]
        /\ sess[c][d].pc = "barrier"
        /\ dev[c][d].conn = "up"
        /\ dev[c][d].reading = 0

\* C3: a session that ends with the error of a lost connection, found at the
\* is_connected check or at a write to the indicator, has its readiness flag
\* clear when it ends.
C3_FlagClearOnConnectionLost ==
    \A c \in Cohorts, d \in Devices :
        (sess[c][d].pc = "failed" /\ sess[c][d].exc \in {"lost_check", "lost_write"})
            => ~flag[c][d]

\* Session d is the only one of cohort c that ended with an error, and the
\* error is a lost connection.
OnlyFailure(c, d) ==
    /\ sess[c][d].pc = "failed"
    /\ sess[c][d].exc \in {"lost_check", "lost_write"}
    /\ \A e \in Devices \ {d} : sess[c][e].pc # "failed"

\* The task got its CancelledError: it is over as cancelled, or is in the
\* disconnect of __aexit__ on its way there.
Stopping(c, e) ==
    \/ sess[c][e].pc = "cancelled"
    \/ sess[c][e].pc = "closing" /\ sess[c][e].exc = "cancelled"

\* main() has left the gather of cohort c.
Handled(c) == mainSt.cohort > c \/ (mainSt.cohort = c /\ mainSt.pc # "gather")

AllSessionsOver == \A d \in Devices : sess[1][d].pc = "done"

\* C5: in export mode, once every session has left its loop because its
\* duration is over, main() gets out of the gather.
C5_ExportTerminates == AllSessionsOver ~> (mainSt.pc # "gather")

\* The step of main() that runs the except block.
HandlesError ==
    /\ mainSt.pc = "gather"
    /\ mainSt.res = "exc"
    /\ mainSt' # mainSt

Publishes(c) ==
    /\ ready # <<>>
    /\ Head(ready) = WatchT(c)
    /\ \E d \in Devices : mqtt_flag[c][d] /\ ~mqtt_flag'[c][d]

\* C7: the watcher sends only when every device has written its JSON file
\* since the previous send, and a file written since then always has its
\* mqtt_flag set for the next send.
C7_PublishNeedsAllWrites ==
    /\ [][\A c \in Cohorts :
            Publishes(c) => \A d \in Devices : fresh[c][d] /\ ~fresh'[c][d]]_vars
    /\ [](\A c \in Cohorts, d \in Devices : fresh[c][d] => mqtt_flag[c][d])

\* C7 witness: after a send, one session has written again and its flag is
\* kept for the next send while the watcher waits for the other device.
C7_Witness ==
    \E c \in Cohorts : \E d, e \in Devices :
        /\ mode = MODE_RT_SCAN
        /\ sess[c][d].count >= 3
        /\ sess[c][e].count = 2
        /\ fresh[c][d] /\ mqtt_flag[c][d]
        /\ ~fresh[c][e]
        /\ watcher[c].pc = "wait"

\* C8: the JSON object of a stored quaternion reading has exactly the keys
\* q0_<role> .. q3_<role> and Timestamp, q_i mapped to component i and
\* Timestamp to the reading's timestamp.
C8_JsonHasFiveKeys ==
    decoded.stage = "written" =>
        LET r == probe.role
            q == <<"q0_" \o r, "q1_" \o r, "q2_" \o r, "q3_" \o r>>
        IN /\ DOMAIN decoded.datalist = {q[j] : j \in 1..4} \cup {"Timestamp"}
           /\ \A j \in 1..4 : decoded.datalist[q[j]] = decoded.readings[2][j]
           /\ decoded.datalist["Timestamp"] = decoded.readings[1]

\* C9: disconnect() is called at most once on any client.
C9_DisconnectAtMostOnce ==
    \A c \in Cohorts, d \in Devices : dev[c][d].disc <= 1

\* C10: of the nine integers of a motion payload the gyroscope decoder
\* scales the first three, the accelerometer the next three and the
\* magnetometer the last three, each in order and nothing else.
C10_MotionRanges ==
    (decoded.stage = "stored" /\ probe.kind = "motion") =>
        /\ Len(decoded.gyro[2]) = 3
        /\ Len(decoded.accel[2]) = 3
        /\ Len(decoded.mag[2]) = 3
        /\ \A n \in 1..3 :
             /\ decoded.gyro[2][n] = [num |-> probe.vals[n] * 500, den |-> 65536]
             /\ decoded.accel[2][n] = [num |-> probe.vals[3 + n] * 8, den |-> 32768]
             /\ decoded.mag[2][n] = [num |-> probe.vals[6 + n] * 4912, den |-> 32760]

\* C10 witness: a decoded payload whose integers differ across the range
\* boundaries.
C10_Witness ==
    /\ decoded.stage = "stored"
    /\ probe.kind = "motion"
    /\ probe.vals[3] # probe.vals[4]
    /\ probe.vals[6] # probe.vals[7]
\* The 16 bits of an optical probe's raw value, read as an unsigned number.
OpticalPattern == IF probe.vals[1] < 0 THEN probe.vals[1] + 65536 ELSE probe.vals[1]

\* C11: for every 16-bit optical raw value, negative ones included, the
\* decoder yields mantissa = low 12 bits, exponent = high 4 bits in 0..15
\* and (mantissa << exponent) hundredths of a lux; 0x1064 gives 100, 1 and
\* 200 hundredths.
C11_OpticalDecode ==
    (decoded.stage = "stored" /\ probe.kind = "optical") =>
        /\ decoded.optical.m = OpticalPattern % 4096
        /\ decoded.optical.e = OpticalPattern \div 4096
        /\ decoded.optical.e \in 0..15
        /\ decoded.optical.lux =
              [num |-> (OpticalPattern % 4096) * 2 ^ (OpticalPattern \div 4096),
               den |-> 100]
        /\ probe.vals[1] = 4196 =>
              decoded.optical = [m |-> 100, e |-> 1,
                                 lux |-> [num |-> 200, den |-> 100]]

\* C11 witness: a raw value with the top bit set has been decoded.
C11_Witness ==
    /\ decoded.stage = "stored"
    /\ probe.kind = "optical"
    /\ probe.vals[1] < 0
    /\ decoded.optical.e >= 8
\* The positions of run() inside its streaming loop.
Streaming == {"led_ctrl", "led_data", "pace", "barrier"}

\* start_listener of session (c, d) is over and has raised: the sensor
\* object exists and no notification handler is subscribed.
ConfigureFailed(c, d) ==
    /\ dev[c][d].bound
    /\ ~dev[c][d].sub
    /\ sess[c][d].pc \notin {"cfg_write", "cfg_notify"}

\* C12: a session whose control write or subscription failed never enters
\* the streaming loop and never has its readiness flag set.
C12_ConfigureErrorIsFatal ==
    \A c \in Cohorts, d \in Devices :
        ConfigureFailed(c, d) =>
            /\ sess[c][d].pc \notin Streaming
            /\ ~flag[c][d]
\* A step in which a sensor callback is run on the payload in data.
CallbackRuns == decoded.stage = "none" /\ decoded'.stage # "none"

\* C13: a payload of the wrong length makes the callback raise and leaves
\* the stored readings (timestamp and values) and the session as they were;
\* a well-formed one replaces the stored reading, timestamp and values, by
\* its own.
C13_BadLengthKeepsReading ==
    /\ [][(CallbackRuns /\ probe.kind \in {"motion", "quat"} /\ probe.cut > 0) =>
            /\ decoded'.stage = "raised"
            /\ decoded' = [decoded EXCEPT !.stage = "raised"]
            /\ sess' = sess]_vars
    /\ [][(CallbackRuns /\ probe.kind = "quat" /\ probe.cut = 0) =>
            /\ decoded'.stage = "stored"
            /\ decoded'.readings = <<probe.now, probe.vals>>]_vars

\* C13 witness: a reading is stored, a later payload cut short has made
\* the callback raise, and the reading kept is not what that payload held.
C13_Witness ==
    /\ probe.kind = "quat"
    /\ probe.cut > 0
    /\ decoded.stage = "raised"
    /\ decoded.readings # <<>>
    /\ decoded.readings # <<probe.now, probe.vals>>
\* Session (c, d) starts led_and_buzzer.notify in this step.
StartsNotify(c, d) ==
    /\ sess'[c][d].pc = "led_ctrl"
    /\ sess[c][d].pc # "led_ctrl"

\* C14 as claimed: the code handed to notify() is red + buzzer exactly when
\* the warning flag is set and green exactly when it is not.
C14_CodeFollowsWarnFlagOnly ==
    [][\A c \in Cohorts, d \in Devices :
          StartsNotify(c, d) =>
             sess'[c][d].code = IF sess'[c][d].warned THEN RED_BUZZER ELSE GREEN]_vars

\* C14 amended: the code is red + buzzer exactly when the warning flag is
\* set or the calibration counter is 3 or 4 (which happens in live-scan
\* mode only), and green otherwise.
C14_CodeFollowsWarnFlagOrCalibration ==
    /\ [][\A c \in Cohorts, d \in Devices :
            StartsNotify(c, d) =>
               sess'[c][d].code =
                  IF sess'[c][d].warned \/ sess'[c][d].count \in {3, 4}
                  THEN RED_BUZZER ELSE GREEN]_vars
    /\ [](\A c \in Cohorts, d \in Devices :
            /\ sess[c][d].pc = "led_ctrl" =>
                   sess[c][d].code \in {RED_BUZZER, GREEN}
            /\ mode = MODE_EXPORT_DATA => sess[c][d].count = 0)

\* C14 witness: a session writes red + buzzer for calibration sample 3
\* with the warning flag clear.
C14_Witness ==
    \E c \in Cohorts, d \in Devices :
        /\ sess[c][d].pc = "led_ctrl"
        /\ sess[c][d].code = RED_BUZZER
        /\ sess[c][d].count = 3
        /\ ~sess[c][d].warned
\* Task blocked in a barrier: a session in "await f.wait()" on a readiness
\* flag, the watcher in "await f.wait()" on an mqtt_flag.
SessionBlocked(c, e) == sess[c][e].pc = "barrier" /\ sess[c][e].res = "none"
WatcherBlocked(c) == watcher[c].pc = "wait" /\ watcher[c].res = "none"

\* C15: once a session of a cohort has ended with an error, every session
\* of the cohort blocked on a readiness flag and the watcher blocked on an
\* mqtt_flag is eventually cancelled: none stays blocked.
C15_BlockedTasksGetCancelled ==
    \A c \in 1..MaxCohorts :
        (\E d \in Devices : sess[c][d].pc = "failed") ~>
            /\ \A e \in Devices : ~SessionBlocked(c, e)
            /\ ~WatcherBlocked(c)
            /\ \A e \in Devices :
                   sess[c][e].pc \in Terminal \/ Stopping(c, e)
            /\ watcher[c].pc \in Terminal

\* C15 witness: one session has failed, and its sibling, which was in the
\* barrier, and the watcher have been cancelled.
C15_Witness ==
    \E c \in Cohorts : \E d, e \in Devices :
        /\ sess[c][d].pc = "failed"
        /\ sess[c][d].exc = "lost_check"
        /\ sess[c][e].pc = "cancelled"
        /\ watcher[c].pc = "cancelled"
        /\ flag[c][e]
\* C16: in the step that spawns a cohort, its readiness flags and
\* mqtt_flags are clear, ble_queue holds no client of an earlier cohort and
\* led_and_buzzer is not the object an earlier cohort made.
C16_FreshContextPerCohort ==
    [][mainSt'.cohort # mainSt.cohort =>
          /\ \A d \in Devices :
                ~flag'[mainSt'.cohort][d] /\ ~mqtt_flag'[mainSt'.cohort][d]
          /\ \A j \in 1..Len(ble_queue') : ble_queue'[j][1] = mainSt'.cohort
          /\ led_and_buzzer' \in {0, mainSt'.cohort}]_vars
\* C17: after any sequence of register() calls the control bitmask has
\* exactly the bits that some registered sub-sensor enables;
\* start_listener writes that bitmask, once; a notification hands all nine
\* integers to every registered sub-decoder, in registration order.
C17_RegisterOrsAndDispatches ==
    /\ \A j \in 0..15 :
          Bit(decoded.ctrlBits, j) = 1 <=>
             \E n \in 1..Len(decoded.sub_callbacks) :
                Bit(EnableBits(decoded.sub_callbacks[n]), j) = 1
    /\ decoded.stage = "made" => decoded.written = <<>>
    /\ decoded.stage # "made" =>
          decoded.written =
             <<<<decoded.ctrlBits % 256, decoded.ctrlBits \div 256>>>>
    /\ decoded.stage = "notified" =>
          /\ Len(decoded.calls) = Len(decoded.sub_callbacks)
          /\ \A n \in 1..Len(decoded.calls) :
                decoded.calls[n] = <<decoded.sub_callbacks[n], probe.vals>>
    /\ decoded.stage # "notified" => decoded.calls = <<>>

\* C17 witness: gyroscope and accelerometer registered, the bitmask
\* written, a notification dispatched to both.
C17_Witness ==
    /\ decoded.stage = "notified"
    /\ decoded.sub_callbacks = <<"accel", "gyro">>
    /\ decoded.ctrlBits = 319
    /\ Len(decoded.calls) = 2
\* C18: across restarts at most one session per device is alive: whenever a
\* session of the next cohort exists for a device, that device's session
\* of the cohort before is over, its disconnect included.
C18_OneLiveSessionPerDevice ==
    \A c \in 1..MaxCohorts, d \in Devices :
        sess[c + 1][d].pc # "unborn" => sess[c][d].pc \in Terminal
\* C19: a set connection flag means that device's session of the cohort is
\* still running: a session that returned, failed or was cancelled has not
\* left its flag set.
C19_FlagOnlyWhileSessionRuns ==
    \A c \in Cohorts, d \in Devices :
        flag[c][d] => sess[c][d].pc \notin Terminal
\* C20: a session has written its JSON record, or set its written-flag,
\* only with a decoded notification stored; a session released from the
\* barrier with no reading stored ends with an error instead.
C20_NoWriteBeforeFirstReading ==
    [][\A c \in Cohorts, d \in Devices :
          /\ (fresh'[c][d] \/ mqtt_flag'[c][d]) => dev'[c][d].reading # 0
          /\ (PassesBarrier(c, d) /\ dev[c][d].reading = 0) =>
                /\ sess'[c][d].pc = "closing"
                /\ sess'[c][d].exc = "no_reading"
                /\ fresh'[c][d] = fresh[c][d]
                /\ mqtt_flag'[c][d] = mqtt_flag[c][d]]_vars

\* C20 witness: a session was released before any notification arrived and
\* is leaving with the error, nothing written.
C20_Witness ==
    \E c \in Cohorts, d \in Devices :
        /\ sess[c][d].pc = "closing"
        /\ sess[c][d].exc = "no_reading"
        /\ dev[c][d].sub
        /\ dev[c][d].reading = 0
        /\ ~fresh[c][d]
        /\ ~mqtt_flag[c][d]
\* C21: in live-scan mode with healthy devices and fair scheduling the
\* watcher of the cohort sends a combined record again and again, every
\* session keeps writing its record, and nobody ends or stays blocked.
C21_RecordsEmittedForEver ==
    /\ []<><<Publishes(1)>>_vars
    /\ \A d \in Devices :
          /\ []<>fresh[1][d]
          /\ []<>(sess[1][d].pc # "barrier")
          /\ [](sess[1][d].pc \notin Terminal \cup {"closing"})
    /\ [](watcher[1].pc \notin Terminal)

\* C21 witness: calibration is over for both sessions, the watcher has
\* sent a record and waits for the next, one session has written again
\* while the other is held at the barrier or on its way there.
C21_Witness ==
    \E d, e \in Devices :
        /\ d # e
        /\ mode = MODE_RT_SCAN
        /\ sess[1][d].count = CALIBRATION_SAMPLES
        /\ sess[1][e].count = CALIBRATION_SAMPLES
        /\ fresh[1][d] /\ mqtt_flag[1][d]
        /\ ~fresh[1][e] /\ ~mqtt_flag[1][e]
        /\ watcher[1].pc = "wait" /\ watcher[1].k = e
        /\ \A k \in Devices : flag[1][k] /\ dev[1][k].conn = "up"
====
